---------------------------- MODULE Spec2Model ----------------------------
(***************************************************************************)
(* Model of the transactions engine: the account state machine             *)
(* (src/src/client.rs), the fixed-point amount type with its checked       *)
(* arithmetic and text form (src/src/amount.rs), the registry of clients   *)
(* (src/src/clients.rs) and the loop over the records of an input          *)
(* (src/src/main.rs).                                                      *)
(*                                                                         *)
(* An Amount wraps a u64 counting ten-thousandths.  The model checker's    *)
(* integers are 32 bits wide, so a u64 is held here, at its full width, as *)
(* a little-endian sequence of base-10000 digits: digit 1 is the           *)
(* fractional part (self.0 % 10000), the other digits are the integer part *)
(* (self.0 / 10000).  One more digit than u64::MAX needs is kept, so that  *)
(* the exact sum of two u64 values is representable and "does it fit in a  *)
(* u64" is a comparison against U64_MAX, never a wrapped value.            *)
(***************************************************************************)
EXTENDS Integers, Sequences, FiniteSets, TLC

VARIABLES
    client,   \* the Client struct: deposits, available, total, locked
    call,     \* the last method call made on the client, with its arguments
    result,   \* what that call returned: "Ok", a ClientError, or "Panic"
    withdrawn,\* how many withdrawals have succeeded so far in the run
    charged,  \* how many chargebacks have succeeded so far in the run
    \* Amount arithmetic on its own:
    lhs, rhs, \* the operands of a checked_add or checked_sub
    op,       \* which of the two was applied: "none", "add" or "sub"
    out,      \* what it returned
    \* Amount text form on its own:
    text,     \* the text handed to Amount::try_from
    parsed,   \* what try_from returned
    shown,    \* to_string() of the parsed amount
    \* The registry of clients:
    clients,  \* Clients::clients, the map from ClientId to Client
    txn,      \* the last Transaction handed to process_transaction
    outcome,  \* what process_transaction returned for it
    processed,\* how many records were processed so far
    seen,     \* the <<client, type, id>> of the deposit and withdrawal
              \* records processed so far
    deposited,\* the <<client, id>> of the deposit records that succeeded
    output,   \* what Clients::write wrote, once it has been called
    input     \* the records of the input handed to summarize_transactions

accountVars == <<client, call, result, withdrawn, charged>>

arithVars == <<lhs, rhs, op, out>>

textVars == <<text, parsed, shown>>

registryVars ==
    <<clients, txn, outcome, processed, seen, deposited, output, input>>

vars == <<accountVars, arithVars, textVars, registryVars>>

---------------------------------------------------------------------------
(* Bounds of the model. *)

\* Transaction ids used by the calls are 1..MaxTxId.
MaxTxId == 2

\* A run makes at most MaxWithdrawals successful withdrawals (without it the
\* balance can step down from u64::MAX one unit at a time).
MaxWithdrawals == 2

\* Every text of at most MaxTextLen characters over a small alphabet is
\* handed to Amount::try_from, besides a list of longer ones.
MaxTextLen == 3

\* An input holds at most MaxRecords transaction records.
MaxRecords == 4

---------------------------------------------------------------------------
(* u64 values. *)

\* The scale of an Amount, and the radix the model writes u64 values in.
Scale == 10000

\* u64::MAX = 18446744073709551615, least significant digit first.
U64_MAX_DIGITS == <<1615, 955, 737, 6744, 1844>>

Width == Len(U64_MAX_DIGITS) + 1

Digits == 1..Width

\* The u64 (widened by one digit) of a small integer n, 0 <= n < Scale^2.
U64(n) == [i \in Digits |-> IF i = 1 THEN n % Scale
                            ELSE IF i = 2 THEN n \div Scale
                            ELSE 0]

U64_MAX == [i \in Digits |-> IF i <= Len(U64_MAX_DIGITS) THEN U64_MAX_DIGITS[i] ELSE 0]

\* Carry out of digit i when adding a and b.
RECURSIVE Carry(_, _, _)
Carry(a, b, i) ==
    IF i = 0 THEN 0 ELSE (a[i] + b[i] + Carry(a, b, i - 1)) \div Scale

\* The exact sum a + b (a, b <= u64::MAX, so the sum fits in Width digits).
Plus(a, b) == [i \in Digits |-> (a[i] + b[i] + Carry(a, b, i - 1)) % Scale]

\* Borrow out of digit i when subtracting b from a.
RECURSIVE Borrow(_, _, _)
Borrow(a, b, i) ==
    IF i = 0 THEN 0
    ELSE IF a[i] - b[i] - Borrow(a, b, i - 1) < 0 THEN 1 ELSE 0

\* The exact difference a - b, for b <= a.
Minus(a, b) ==
    [i \in Digits |-> (a[i] - b[i] - Borrow(a, b, i - 1) + Scale) % Scale]

\* a <= b
Leq(a, b) == Borrow(b, a, Width) = 0

\* a < b
Less(a, b) == ~Leq(b, a)

---------------------------------------------------------------------------
(* Amount: checked arithmetic.  Option::None is the empty sequence. *)

None == << >>

\* Amount::default()
Amount_default == U64(0)

\* An addition that wraps modulo 2^64 instead of failing.
checked_add_wraps(self, other) ==
    IF Leq(Plus(self, other), U64_MAX) THEN Plus(self, other)
    ELSE Minus(Plus(self, other), Plus(U64_MAX, U64(1)))

\* u64::checked_add: None when the sum does not fit in a u64.
checked_add(self, other) ==
    IF Leq(Plus(self, other), U64_MAX) THEN Plus(self, other) ELSE None

\* u64::checked_sub: None when other > self.
checked_sub(self, other) ==
    IF Leq(other, self) THEN Minus(self, other) ELSE None

---------------------------------------------------------------------------
(* Amount: text form.  A text is a sequence of characters; a character is  *)
(* a one-character string, except "U+0663", which stands for the non-ASCII *)
(* decimal digit ARABIC-INDIC DIGIT THREE (two bytes in UTF-8).            *)

AsciiDigits == {"0", "1", "2", "3", "4", "5", "6", "7", "8", "9"}

\* Decimal digits of general category Nd that are not ASCII.
UnicodeDigits == {"U+0663"}

\* The regex class \d: Unicode-aware in the regex crate, so any Nd digit.
IsDigit(c) == c \in AsciiDigits \cup UnicodeDigits

\* The character of a digit value 0..9, and back.
Chr(d) == <<"0", "1", "2", "3", "4", "5", "6", "7", "8", "9">>[d + 1]

DigitValue(c) == CHOOSE d \in 0..9 : Chr(d) = c

\* str::len of one character: its length in UTF-8 bytes.
Utf8Len(c) == IF c \in UnicodeDigits THEN 2 ELSE 1

\* str::len
RECURSIVE ByteLen(_)
ByteLen(s) == IF s = << >> THEN 0 ELSE Utf8Len(Head(s)) + ByteLen(Tail(s))

AllDigits(s) == \A i \in 1..Len(s) : IsDigit(s[i])

\* Position of the first "." of s, 0 if there is none.
FirstDot(s) ==
    IF \E i \in 1..Len(s) : s[i] = "."
    THEN CHOOSE i \in 1..Len(s) : s[i] = "." /\ \A j \in 1..(i - 1) : s[j] # "."
    ELSE 0

NoMatch == [matched |-> FALSE]

\* RE.captures(s) for ^(\d+)(?:\.(\d{1,4}))?$ : group 1 and group 2 (None
\* when the optional group did not take part).
Captures(s) ==
    LET p == FirstDot(s) IN
    IF p = 0
    THEN IF Len(s) >= 1 /\ AllDigits(s)
         THEN [matched |-> TRUE, int |-> s, frac |-> None]
         ELSE NoMatch
    ELSE LET int == SubSeq(s, 1, p - 1)
             frac == SubSeq(s, p + 1, Len(s))
         IN IF /\ Len(int) >= 1 /\ AllDigits(int)
               /\ Len(frac) \in 1..4 /\ AllDigits(frac)
            THEN [matched |-> TRUE, int |-> int, frac |-> frac]
            ELSE NoMatch

\* Carry out of digit i when multiplying a by the small factor k.
RECURSIVE MulCarry(_, _, _)
MulCarry(a, k, i) ==
    IF i = 0 THEN 0 ELSE (a[i] * k + MulCarry(a, k, i - 1)) \div Scale

\* The exact product a * k (a <= u64::MAX, k <= Scale).
Times(a, k) == [i \in Digits |-> (a[i] * k + MulCarry(a, k, i - 1)) % Scale]

\* u64::checked_mul by a small factor.
checked_mul(self, k) ==
    IF Leq(Times(self, k), U64_MAX) THEN Times(self, k) ELSE None

\* The digit loop of <u64 as FromStr>::from_str, from character i on.
RECURSIVE FromStrLoop(_, _, _)
FromStrLoop(s, i, acc) ==
    IF i > Len(s) THEN [tag |-> "Ok", value |-> acc]
    ELSE IF s[i] \notin AsciiDigits THEN [tag |-> "InvalidDigit"]
    ELSE LET mul == checked_mul(acc, 10) IN
        IF mul = None THEN [tag |-> "PosOverflow"]
        ELSE LET sum == checked_add(mul, U64(DigitValue(s[i]))) IN
            IF sum = None THEN [tag |-> "PosOverflow"]
            ELSE FromStrLoop(s, i + 1, sum)

\* str::parse::<u64>
parse_u64(s) ==
    IF s = << >> THEN [tag |-> "Empty"]
    ELSE IF s[1] = "+"
        THEN IF Len(s) = 1 THEN [tag |-> "InvalidDigit"]
             ELSE FromStrLoop(s, 2, U64(0))
    ELSE FromStrLoop(s, 1, U64(0))

\* 10u64.pow(n)
RECURSIVE Pow10(_)
Pow10(n) == IF n = 0 THEN 1 ELSE 10 * Pow10(n - 1)

\* parse_decimal_part without the scaling by 10^(4 - len).
parse_decimal_part_unscaled(s) ==
    IF ByteLen(s) > 4 THEN [tag |-> "Panic"]
    ELSE LET n == parse_u64(s) IN
        IF n.tag # "Ok" THEN [tag |-> "Panic"]
        ELSE [tag |-> "Ok", value |-> n.value]

\* parse_decimal_part: the assert is on the length in bytes.
parse_decimal_part(s) ==
    IF ByteLen(s) > 4 THEN [tag |-> "Panic"]
    ELSE LET n == parse_u64(s) IN
        IF n.tag # "Ok" THEN [tag |-> "Panic"]
        ELSE [tag |-> "Ok", value |-> Times(n.value, Pow10(4 - ByteLen(s)))]

\* try_from that adds the fractional part with a wrapping addition.
try_from_unchecked_add(s) ==
    LET captures == Captures(s) IN
    IF captures = NoMatch THEN [tag |-> "InvalidFormat"]
    ELSE LET integer == parse_u64(captures.int) IN
        IF integer.tag = "PosOverflow" THEN [tag |-> "TooLarge"]
        ELSE IF integer.tag # "Ok" THEN [tag |-> "Panic"]
        ELSE LET decimal == IF captures.frac = None
                            THEN [tag |-> "Ok", value |-> U64(0)]
                            ELSE parse_decimal_part(captures.frac) IN
            IF decimal.tag # "Ok" THEN [tag |-> "Panic"]
            ELSE LET scaled == checked_mul(integer.value, Scale) IN
                IF scaled = None THEN [tag |-> "TooLarge"]
                ELSE [tag |-> "Ok",
                      value |-> checked_add_wraps(scaled, decimal.value)]

\* impl TryFrom<&str> for Amount
try_from(s) ==
    LET captures == Captures(s) IN
    IF captures = NoMatch THEN [tag |-> "InvalidFormat"]
    ELSE LET integer == parse_u64(captures.int) IN
        IF integer.tag = "PosOverflow" THEN [tag |-> "TooLarge"]
        ELSE IF integer.tag # "Ok" THEN [tag |-> "Panic"]
        ELSE LET decimal == IF captures.frac = None
                            THEN [tag |-> "Ok", value |-> U64(0)]
                            ELSE parse_decimal_part(captures.frac) IN
            IF decimal.tag # "Ok" THEN [tag |-> "Panic"]
            ELSE LET scaled == checked_mul(integer.value, Scale) IN
                IF scaled = None THEN [tag |-> "TooLarge"]
                ELSE LET amount == checked_add(scaled, decimal.value) IN
                    IF amount = None THEN [tag |-> "TooLarge"]
                    ELSE [tag |-> "Ok", value |-> amount]

\* The decimal digits of a small integer, without leading zeroes ({}).
RECURSIVE DecimalOf(_)
DecimalOf(n) ==
    IF n < 10 THEN <<Chr(n)>> ELSE DecimalOf(n \div 10) \o <<Chr(n % 10)>>

\* {:0>4}: right-aligned in a field of four, filled with "0".
PadLeft4(s) ==
    [i \in 1..(4 - Len(s)) |-> "0"] \o s

\* The decimal digits of digits 1..h of a, digit h first, each digit below
\* the first written in full.
RECURSIVE DecimalFrom(_, _)
DecimalFrom(a, h) ==
    IF h = 0 THEN << >>
    ELSE PadLeft4(DecimalOf(a[h])) \o DecimalFrom(a, h - 1)

\* self.0 / 10000
DivScale(a) == [i \in Digits |-> IF i < Width THEN a[i + 1] ELSE 0]

\* self.0 % 10000
ModScale(a) == a[1]

\* {} of a u64: its decimal digits without leading zeroes.
DisplayU64(a) ==
    IF \A i \in Digits : a[i] = 0 THEN <<"0">>
    ELSE LET h == CHOOSE i \in Digits :
                    a[i] # 0 /\ \A j \in Digits : j > i => a[j] = 0
         IN DecimalOf(a[h]) \o DecimalFrom(a, h - 1)

\* impl Display for Amount
fmt(self) ==
    DisplayU64(DivScale(self)) \o <<".">> \o PadLeft4(DecimalOf(ModScale(self)))

---------------------------------------------------------------------------
(* Client. *)

\* Deposit::new
Deposit_new(amount) == [amount |-> amount, disputed |-> FALSE]

\* #[derive(Default)] Client
Client_default ==
    [deposits  |-> << >>,
     available |-> Amount_default,
     total     |-> Amount_default,
     locked    |-> FALSE]

\* HashMap insert of a new key / update of a key.
Insert(deposits, k, v) ==
    [x \in (DOMAIN deposits) \cup {k} |-> IF x = k THEN v ELSE deposits[x]]

\* HashMap remove.
Remove(deposits, k) ==
    [x \in (DOMAIN deposits) \ {k} |-> deposits[x]]

\* What a method leaves behind: the client and the returned value.
Ret(self, res) == [self |-> self, result |-> res]

\* deposit with the overflow test made on available instead of total.
deposit_tests_available(self, transaction_id, amount) ==
    IF self.locked THEN Ret(self, "Locked")
    ELSE LET available == checked_add(self.available, amount) IN
        IF available = None THEN Ret(self, "Overflow")
        ELSE IF transaction_id \in DOMAIN self.deposits
            THEN Ret(self, "DuplicateTransactionId")
        ELSE LET total == checked_add(self.total, amount) IN
            IF total = None THEN Ret(self, "Panic")
            ELSE Ret([self EXCEPT
                        !.available = available,
                        !.total = total,
                        !.deposits = Insert(self.deposits, transaction_id,
                                            Deposit_new(amount))],
                     "Ok")

\* deposit that stores the new total before it looks for a duplicate id.
deposit_eager_total(self, transaction_id, amount) ==
    IF self.locked THEN Ret(self, "Locked")
    ELSE LET total == checked_add(self.total, amount) IN
        IF total = None THEN Ret(self, "Overflow")
        ELSE IF transaction_id \in DOMAIN self.deposits
            THEN Ret([self EXCEPT !.total = total], "DuplicateTransactionId")
        ELSE LET available == checked_add(self.available, amount) IN
            IF available = None THEN Ret(self, "Panic")
            ELSE Ret([self EXCEPT
                        !.available = available,
                        !.total = total,
                        !.deposits = Insert(self.deposits, transaction_id,
                                            Deposit_new(amount))],
                     "Ok")

\* deposit that forgets to credit available.
deposit_total_only(self, transaction_id, amount) ==
    IF self.locked THEN Ret(self, "Locked")
    ELSE LET total == checked_add(self.total, amount) IN
        IF total = None THEN Ret(self, "Overflow")
        ELSE IF transaction_id \in DOMAIN self.deposits
            THEN Ret(self, "DuplicateTransactionId")
        ELSE Ret([self EXCEPT
                    !.total = total,
                    !.deposits = Insert(self.deposits, transaction_id,
                                        Deposit_new(amount))],
                 "Ok")

\* deposit that inserts without looking for a duplicate id.
deposit_overwrites(self, transaction_id, amount) ==
    IF self.locked THEN Ret(self, "Locked")
    ELSE LET total == checked_add(self.total, amount) IN
        IF total = None THEN Ret(self, "Overflow")
        ELSE LET available == checked_add(self.available, amount) IN
            IF available = None THEN Ret(self, "Panic")
            ELSE Ret([self EXCEPT
                        !.available = available,
                        !.total = total,
                        !.deposits = Insert(self.deposits, transaction_id,
                                            Deposit_new(amount))],
                     "Ok")

\* Client::deposit
deposit(self, transaction_id, amount) ==
    IF self.locked THEN Ret(self, "Locked")
    ELSE LET total == checked_add(self.total, amount) IN
        IF total = None THEN Ret(self, "Overflow")
        ELSE IF transaction_id \in DOMAIN self.deposits
            THEN Ret(self, "DuplicateTransactionId")
        ELSE LET available == checked_add(self.available, amount) IN
            IF available = None THEN Ret(self, "Panic")
            ELSE Ret([self EXCEPT
                        !.available = available,
                        !.total = total,
                        !.deposits = Insert(self.deposits, transaction_id,
                                            Deposit_new(amount))],
                     "Ok")

\* withdraw that tests the funds against total instead of available.
withdraw_tests_total(self, amount) ==
    IF self.locked THEN Ret(self, "Locked")
    ELSE LET total == checked_sub(self.total, amount) IN
        IF total = None THEN Ret(self, "InsufficientFunds")
        ELSE LET available == checked_sub(self.available, amount) IN
            IF available = None
            THEN Ret([self EXCEPT !.total = total], "Panic")
            ELSE Ret([self EXCEPT !.available = available, !.total = total],
                     "Ok")

\* withdraw that refuses to empty the available balance (< for <=).
withdraw_strict(self, amount) ==
    IF self.locked THEN Ret(self, "Locked")
    ELSE IF ~Less(amount, self.available) THEN Ret(self, "InsufficientFunds")
    ELSE Ret([self EXCEPT !.available = Minus(self.available, amount),
                          !.total = Minus(self.total, amount)],
             "Ok")

\* Client::withdraw
withdraw(self, amount) ==
    IF self.locked THEN Ret(self, "Locked")
    ELSE LET available == checked_sub(self.available, amount) IN
        IF available = None THEN Ret(self, "InsufficientFunds")
        ELSE LET total == checked_sub(self.total, amount) IN
            IF total = None
            THEN Ret([self EXCEPT !.available = available], "Panic")
            ELSE Ret([self EXCEPT !.available = available, !.total = total],
                     "Ok")

\* dispute that takes the held funds out of total as well.
dispute_reduces_total(self, transaction_id) ==
    IF self.locked THEN Ret(self, "Locked")
    ELSE IF transaction_id \notin DOMAIN self.deposits
        THEN Ret(self, "UnknownTransactionId")
    ELSE LET dep == self.deposits[transaction_id] IN
        IF dep.disputed THEN Ret(self, "AlreadyDisputed")
        ELSE LET available == checked_sub(self.available, dep.amount) IN
            IF available = None THEN Ret(self, "InsufficientFunds")
            ELSE Ret([self EXCEPT
                        !.available = available,
                        !.total = Minus(self.total, dep.amount),
                        !.deposits = Insert(self.deposits, transaction_id,
                                            [dep EXCEPT !.disputed = TRUE])],
                     "Ok")

\* dispute that marks the record without holding its funds.
dispute_holds_nothing(self, transaction_id) ==
    IF self.locked THEN Ret(self, "Locked")
    ELSE IF transaction_id \notin DOMAIN self.deposits
        THEN Ret(self, "UnknownTransactionId")
    ELSE LET dep == self.deposits[transaction_id] IN
        IF dep.disputed THEN Ret(self, "AlreadyDisputed")
        ELSE IF checked_sub(self.available, dep.amount) = None
            THEN Ret(self, "InsufficientFunds")
        ELSE Ret([self EXCEPT
                    !.deposits = Insert(self.deposits, transaction_id,
                                        [dep EXCEPT !.disputed = TRUE])],
                 "Ok")

\* dispute that tests the funds before the disputed flag.
dispute_funds_first(self, transaction_id) ==
    IF self.locked THEN Ret(self, "Locked")
    ELSE IF transaction_id \notin DOMAIN self.deposits
        THEN Ret(self, "UnknownTransactionId")
    ELSE LET dep == self.deposits[transaction_id] IN
        LET available == checked_sub(self.available, dep.amount) IN
            IF available = None THEN Ret(self, "InsufficientFunds")
            ELSE IF dep.disputed THEN Ret(self, "AlreadyDisputed")
            ELSE Ret([self EXCEPT
                        !.available = available,
                        !.deposits = Insert(self.deposits, transaction_id,
                                            [dep EXCEPT !.disputed = TRUE])],
                     "Ok")

\* Client::dispute
dispute(self, transaction_id) ==
    IF self.locked THEN Ret(self, "Locked")
    ELSE IF transaction_id \notin DOMAIN self.deposits
        THEN Ret(self, "UnknownTransactionId")
    ELSE LET dep == self.deposits[transaction_id] IN
        IF dep.disputed THEN Ret(self, "AlreadyDisputed")
        ELSE LET available == checked_sub(self.available, dep.amount) IN
            IF available = None THEN Ret(self, "InsufficientFunds")
            ELSE Ret([self EXCEPT
                        !.available = available,
                        !.deposits = Insert(self.deposits, transaction_id,
                                            [dep EXCEPT !.disputed = TRUE])],
                     "Ok")

\* resolve without the locked test.
resolve_ignores_lock(self, transaction_id) ==
    IF transaction_id \notin DOMAIN self.deposits
        THEN Ret(self, "UnknownTransactionId")
    ELSE LET dep == self.deposits[transaction_id] IN
        IF ~dep.disputed THEN Ret(self, "NotDisputed")
        ELSE LET available == checked_add(self.available, dep.amount) IN
            IF available = None THEN Ret(self, "Panic")
            ELSE Ret([self EXCEPT
                        !.available = available,
                        !.deposits = Insert(self.deposits, transaction_id,
                                            [dep EXCEPT !.disputed = FALSE])],
                     "Ok")

\* resolve that credits total as well as available.
resolve_credits_total(self, transaction_id) ==
    IF self.locked THEN Ret(self, "Locked")
    ELSE IF transaction_id \notin DOMAIN self.deposits
        THEN Ret(self, "UnknownTransactionId")
    ELSE LET dep == self.deposits[transaction_id] IN
        IF ~dep.disputed THEN Ret(self, "NotDisputed")
        ELSE LET available == checked_add(self.available, dep.amount)
                 total == checked_add(self.total, dep.amount) IN
            IF available = None \/ total = None THEN Ret(self, "Panic")
            ELSE Ret([self EXCEPT
                        !.available = available,
                        !.total = total,
                        !.deposits = Insert(self.deposits, transaction_id,
                                            [dep EXCEPT !.disputed = FALSE])],
                     "Ok")

\* resolve that releases the funds and leaves the record marked disputed.
resolve_keeps_flag(self, transaction_id) ==
    IF self.locked THEN Ret(self, "Locked")
    ELSE IF transaction_id \notin DOMAIN self.deposits
    THEN Ret(self, "UnknownTransactionId")
    ELSE IF ~self.deposits[transaction_id].disputed
    THEN Ret(self, "NotDisputed")
    ELSE LET sum == checked_add(self.available,
                                self.deposits[transaction_id].amount)
         IN IF sum = None THEN Ret(self, "Panic")
            ELSE Ret([self EXCEPT !.available = sum], "Ok")

\* resolve that forgets the deposit once its dispute is settled.
resolve_forgets_record(self, transaction_id) ==
    IF self.locked THEN Ret(self, "Locked")
    ELSE IF transaction_id \notin DOMAIN self.deposits
    THEN Ret(self, "UnknownTransactionId")
    ELSE IF ~self.deposits[transaction_id].disputed
    THEN Ret(self, "NotDisputed")
    ELSE LET sum == checked_add(self.available,
                                self.deposits[transaction_id].amount)
         IN IF sum = None THEN Ret(self, "Panic")
            ELSE Ret([self EXCEPT
                        !.available = sum,
                        !.deposits = Remove(@, transaction_id)],
                     "Ok")

\* Client::resolve
resolve(self, transaction_id) ==
    IF self.locked THEN Ret(self, "Locked")
    ELSE IF transaction_id \notin DOMAIN self.deposits
        THEN Ret(self, "UnknownTransactionId")
    ELSE LET dep == self.deposits[transaction_id] IN
        IF ~dep.disputed THEN Ret(self, "NotDisputed")
        ELSE LET available == checked_add(self.available, dep.amount) IN
            IF available = None THEN Ret(self, "Panic")
            ELSE Ret([self EXCEPT
                        !.available = available,
                        !.deposits = Insert(self.deposits, transaction_id,
                                            [dep EXCEPT !.disputed = FALSE])],
                     "Ok")

\* chargeback that reverses the deposit and leaves the account unlocked.
chargeback_leaves_unlocked(self, transaction_id) ==
    IF self.locked THEN Ret(self, "Locked")
    ELSE IF transaction_id \notin DOMAIN self.deposits
    THEN Ret(self, "UnknownTransactionId")
    ELSE IF ~self.deposits[transaction_id].disputed
    THEN Ret(self, "NotDisputed")
    ELSE LET rest == checked_sub(self.total,
                                 self.deposits[transaction_id].amount)
         IN IF rest = None THEN Ret(self, "Panic")
            ELSE Ret([self EXCEPT
                        !.total = rest,
                        !.deposits = Remove(@, transaction_id)],
                     "Ok")

\* chargeback that keeps the record, marked, instead of removing it.
chargeback_keeps_record(self, transaction_id) ==
    IF self.locked THEN Ret(self, "Locked")
    ELSE IF transaction_id \notin DOMAIN self.deposits
        THEN Ret(self, "UnknownTransactionId")
    ELSE LET dep == self.deposits[transaction_id] IN
        IF ~dep.disputed THEN Ret(self, "NotDisputed")
        ELSE LET total == checked_sub(self.total, dep.amount) IN
            IF total = None THEN Ret(self, "Panic")
            ELSE Ret([self EXCEPT !.total = total, !.locked = TRUE], "Ok")

\* chargeback that does not ask for an open dispute.
chargeback_without_dispute(self, transaction_id) ==
    IF self.locked THEN Ret(self, "Locked")
    ELSE IF transaction_id \notin DOMAIN self.deposits
        THEN Ret(self, "UnknownTransactionId")
    ELSE LET dep == self.deposits[transaction_id] IN
        LET total == checked_sub(self.total, dep.amount) IN
            IF total = None THEN Ret(self, "Panic")
            ELSE Ret([self EXCEPT
                        !.total = total,
                        !.deposits = Remove(self.deposits, transaction_id),
                        !.locked = TRUE],
                     "Ok")

\* Client::chargeback
chargeback(self, transaction_id) ==
    IF self.locked THEN Ret(self, "Locked")
    ELSE IF transaction_id \notin DOMAIN self.deposits
        THEN Ret(self, "UnknownTransactionId")
    ELSE LET dep == self.deposits[transaction_id] IN
        IF ~dep.disputed THEN Ret(self, "NotDisputed")
        ELSE LET total == checked_sub(self.total, dep.amount) IN
            IF total = None THEN Ret(self, "Panic")
            ELSE Ret([self EXCEPT
                        !.total = total,
                        !.deposits = Remove(self.deposits, transaction_id),
                        !.locked = TRUE],
                     "Ok")

\* Client::available
available(self) == self.available

\* Client::held; None stands for the failed unwrap.
held(self) == checked_sub(self.total, self.available)

\* Client::total
total(self) == self.total

\* Client::locked
locked(self) == self.locked

\* The fold over the records of ids S that are marked disputed: the sum of
\* their amounts, each added with checked_add; None when one of the
\* additions overflows.
RECURSIVE SumDisputed(_, _)
SumDisputed(deposits, S) ==
    IF S = {} THEN Amount_default
    ELSE LET k == CHOOSE x \in S : TRUE
             acc == SumDisputed(deposits, S \ {k})
         IN IF acc = None THEN None
            ELSE IF deposits[k].disputed
            THEN checked_add(acc, deposits[k].amount)
            ELSE acc

\* actual_held of tests::check_client: the held balance recomputed from the
\* deposit records, or None when the unwrap in the fold panics.
actual_held(self) == SumDisputed(self.deposits, DOMAIN self.deposits)

---------------------------------------------------------------------------
(* Clients: the registry. *)

\* Clients::new
Clients_new == << >>

\* process_transaction with insert(Client::default()) in the place of
\* entry().or_default(): the operation acts on a fresh account.
process_transaction_fresh_entry(cs, transaction) ==
    LET id == transaction.client_id
        entry == Client_default
        data == transaction.data
        r == CASE data.type = "Deposit" ->
                    deposit(entry, data.transaction_id, data.amount)
               [] data.type = "Withdrawal" -> withdraw(entry, data.amount)
               [] data.type = "Dispute" -> dispute(entry, data.transaction_id)
               [] data.type = "Resolve" -> resolve(entry, data.transaction_id)
               [] data.type = "Chargeback" ->
                    chargeback(entry, data.transaction_id)
    IN [clients |-> Insert(cs, id, r.self), result |-> r.result]

\* process_transaction with withdrawals kept by transaction id, next to
\* the deposits.
process_transaction_tracks_withdrawals(cs, transaction) ==
    LET id == transaction.client_id
        entry == IF id \in DOMAIN cs THEN cs[id] ELSE Client_default
        data == transaction.data
        w == withdraw(entry, data.amount)
        r == CASE data.type = "Deposit" ->
                    deposit(entry, data.transaction_id, data.amount)
               [] data.type = "Withdrawal" ->
                    Ret([w.self EXCEPT !.deposits =
                            Insert(@, data.transaction_id,
                                   Deposit_new(data.amount))],
                        w.result)
               [] data.type = "Dispute" -> dispute(entry, data.transaction_id)
               [] data.type = "Resolve" -> resolve(entry, data.transaction_id)
               [] data.type = "Chargeback" ->
                    chargeback(entry, data.transaction_id)
    IN [clients |-> Insert(cs, id, r.self), result |-> r.result]

\* process_transaction keeping the account only when the operation
\* succeeded.
process_transaction_keeps_successes(cs, transaction) ==
    LET id == transaction.client_id
        entry == IF id \in DOMAIN cs THEN cs[id] ELSE Client_default
        data == transaction.data
        r == CASE data.type = "Deposit" ->
                    deposit(entry, data.transaction_id, data.amount)
               [] data.type = "Withdrawal" -> withdraw(entry, data.amount)
               [] data.type = "Dispute" -> dispute(entry, data.transaction_id)
               [] data.type = "Resolve" -> resolve(entry, data.transaction_id)
               [] data.type = "Chargeback" ->
                    chargeback(entry, data.transaction_id)
    IN [clients |-> IF r.result = "Ok" THEN Insert(cs, id, r.self) ELSE cs,
        result |-> r.result]

\* process_transaction with one namespace of transaction ids for all the
\* clients: a deposit is refused when another client stores its id.
process_transaction_global_ids(cs, transaction) ==
    LET id == transaction.client_id
        entry == IF id \in DOMAIN cs THEN cs[id] ELSE Client_default
        data == transaction.data
        r == CASE data.type = "Deposit" ->
                    IF \E o \in DOMAIN cs \ {id} :
                            data.transaction_id \in DOMAIN cs[o].deposits
                    THEN Ret(entry, "DuplicateTransactionId")
                    ELSE deposit(entry, data.transaction_id, data.amount)
               [] data.type = "Withdrawal" -> withdraw(entry, data.amount)
               [] data.type = "Dispute" -> dispute(entry, data.transaction_id)
               [] data.type = "Resolve" -> resolve(entry, data.transaction_id)
               [] data.type = "Chargeback" ->
                    chargeback(entry, data.transaction_id)
    IN [clients |-> Insert(cs, id, r.self), result |-> r.result]

\* Clients::process_transaction: the clients after the call and the value
\* returned.
process_transaction(cs, transaction) ==
    LET id == transaction.client_id
        entry == IF id \in DOMAIN cs THEN cs[id] ELSE Client_default
        data == transaction.data
        r == CASE data.type = "Deposit" ->
                    deposit(entry, data.transaction_id, data.amount)
               [] data.type = "Withdrawal" -> withdraw(entry, data.amount)
               [] data.type = "Dispute" -> dispute(entry, data.transaction_id)
               [] data.type = "Resolve" -> resolve(entry, data.transaction_id)
               [] data.type = "Chargeback" ->
                    chargeback(entry, data.transaction_id)
    IN [clients |-> Insert(cs, id, r.self), result |-> r.result]

\* The place of a new element in a sequence sorted by key: after every
\* element whose key is not greater (the sort is stable).
RECURSIVE InsertByKey(_, _)
InsertByKey(sorted, id) ==
    IF sorted = << >> THEN <<id>>
    ELSE IF sorted[Len(sorted)] <= id THEN Append(sorted, id)
    ELSE Append(InsertByKey(SubSeq(sorted, 1, Len(sorted) - 1), id),
                sorted[Len(sorted)])

\* write without the sort: the rows in the order of iteration.
sort_by_key_omitted(ids) == ids

\* client_ids.sort_by_key(|(id, _)| **id)
RECURSIVE sort_by_key(_)
sort_by_key(ids) ==
    IF ids = << >> THEN << >>
    ELSE InsertByKey(sort_by_key(SubSeq(ids, 1, Len(ids) - 1)), ids[Len(ids)])

\* The Row serialized for one client: the amounts as their text.
Row(id, c) ==
    [client    |-> id,
     available |-> fmt(available(c)),
     held      |-> fmt(held(c)),
     total     |-> fmt(total(c)),
     locked    |-> locked(c)]

\* Clients::write, the map being iterated in the order iter: the rows
\* written, or a panic when held() fails.
write(cs, iter) ==
    IF \E id \in DOMAIN cs : held(cs[id]) = None THEN [tag |-> "Panic"]
    ELSE LET client_ids == sort_by_key(iter) IN
         [tag |-> "Ok",
          rows |-> [i \in 1..Len(client_ids) |->
                        Row(client_ids[i], cs[client_ids[i]])]]

---------------------------------------------------------------------------
(* The calls made on one client. *)

TxIds == 1..MaxTxId

\* Amounts the calls carry: 0.0000, 1.0000 and the largest amount,
\* u64::MAX ten-thousandths.
Amounts == {U64(0), U64(Scale), U64_MAX}

ClientError ==
    {"Overflow", "InsufficientFunds", "UnknownTransactionId",
     "DuplicateTransactionId", "AlreadyDisputed", "NotDisputed", "Locked"}

\* A fresh account on which nothing was called yet.
AccountIdle ==
    /\ client = Client_default
    /\ call = [kind |-> "default"]
    /\ result = "Ok"
    /\ withdrawn = 0
    /\ charged = 0

\* No arithmetic asked for.
ArithIdle ==
    /\ lhs = Amount_default
    /\ rhs = Amount_default
    /\ op = "none"
    /\ out = None

\* No text handed in.
TextIdle ==
    /\ text = << >>
    /\ parsed = [tag |-> "none"]
    /\ shown = None

\* Clients::new(), nothing processed or written.
RegistryIdle ==
    /\ clients = << >>
    /\ txn = [data |-> [type |-> "None"]]
    /\ outcome = "Ok"
    /\ processed = 0
    /\ seen = {}
    /\ deposited = {}
    /\ output = [tag |-> "none"]
    /\ input = << >>

Init ==
    /\ AccountIdle
    /\ ArithIdle
    /\ TextIdle
    /\ RegistryIdle

\* A panic aborts the process: no call follows it.
Running == result # "Panic"

Deposit ==
    /\ Running
    /\ \E tx \in TxIds, amount \in Amounts :
        LET r == deposit(client, tx, amount) IN
        /\ client' = r.self
        /\ result' = r.result
        /\ call' = [kind |-> "deposit", tx |-> tx, amount |-> amount]
        /\ UNCHANGED <<withdrawn, charged, arithVars, textVars, registryVars>>

Withdraw ==
    /\ Running
    /\ \E amount \in Amounts :
        LET r == withdraw(client, amount) IN
        /\ r.result = "Ok" => withdrawn < MaxWithdrawals
        /\ client' = r.self
        /\ result' = r.result
        /\ call' = [kind |-> "withdraw", amount |-> amount]
        /\ withdrawn' = IF r.result = "Ok" THEN withdrawn + 1 ELSE withdrawn
        /\ UNCHANGED <<charged, arithVars, textVars, registryVars>>

Dispute ==
    /\ Running
    /\ \E tx \in TxIds :
        LET r == dispute(client, tx) IN
        /\ client' = r.self
        /\ result' = r.result
        /\ call' = [kind |-> "dispute", tx |-> tx]
        /\ UNCHANGED <<withdrawn, charged, arithVars, textVars, registryVars>>

Resolve ==
    /\ Running
    /\ \E tx \in TxIds :
        LET r == resolve(client, tx) IN
        /\ client' = r.self
        /\ result' = r.result
        /\ call' = [kind |-> "resolve", tx |-> tx]
        /\ UNCHANGED <<withdrawn, charged, arithVars, textVars, registryVars>>

Chargeback ==
    /\ Running
    /\ \E tx \in TxIds :
        LET r == chargeback(client, tx) IN
        /\ client' = r.self
        /\ result' = r.result
        /\ call' = [kind |-> "chargeback", tx |-> tx]
        /\ charged' = IF r.result = "Ok" THEN charged + 1 ELSE charged
        /\ UNCHANGED <<withdrawn, arithVars, textVars, registryVars>>

Next == Deposit \/ Withdraw \/ Dispute \/ Resolve \/ Chargeback

Spec == Init /\ [][Next]_vars

---------------------------------------------------------------------------
(* Amount arithmetic on its own: checked_add and checked_sub applied to    *)
(* operands at both ends of the u64 range.                                 *)

\* 2^63 = 9223372036854775808
U64_HALF == [i \in Digits |-> <<5808, 5477, 368, 3372, 922, 0>>[i]]

ArithValues ==
    {U64(0), U64(1), U64(Scale),
     U64_HALF, Minus(U64_HALF, U64(1)),
     Minus(U64_MAX, U64(Scale)), Minus(U64_MAX, U64(1)), U64_MAX}

InitArith ==
    /\ AccountIdle
    /\ TextIdle
    /\ RegistryIdle
    /\ lhs \in ArithValues
    /\ rhs \in ArithValues
    /\ op = "none"
    /\ out = None

CheckedAdd ==
    /\ op = "none"
    /\ op' = "add"
    /\ out' = checked_add(lhs, rhs)
    /\ UNCHANGED <<lhs, rhs, accountVars, textVars, registryVars>>

CheckedSub ==
    /\ op = "none"
    /\ op' = "sub"
    /\ out' = checked_sub(lhs, rhs)
    /\ UNCHANGED <<lhs, rhs, accountVars, textVars, registryVars>>

NextArith == CheckedAdd \/ CheckedSub

SpecArith == InitArith /\ [][NextArith]_vars

---------------------------------------------------------------------------
(* Amount text form on its own: try_from applied to a text, to_string      *)
(* applied to the amount it returned.                                      *)

\* The text of a sequence of digit values.
Txt(ds) == [i \in 1..Len(ds) |-> Chr(ds[i])]

\* Every text of at most n characters over the alphabet A.
RECURSIVE TextsUpTo(_, _)
TextsUpTo(A, n) ==
    IF n = 0 THEN {<< >>}
    ELSE LET shorter == TextsUpTo(A, n - 1) IN
         shorter \cup {Append(t, c) : t \in shorter, c \in A}

\* Characters of the short texts: two digits, the separator, a letter and a
\* non-ASCII digit.
ShortAlphabet == {"0", "1", ".", "a", "U+0663"}

\* Integer parts of the long texts: small ones, ones with leading zeroes,
\* u64::MAX / 10000 and its successor, u64::MAX and its successor.
IntegerParts ==
    {Txt(<<0>>), Txt(<<7>>), Txt(<<1, 2, 3, 4>>), Txt(<<0, 0, 0, 1, 2, 3, 4>>),
     Txt(<<1, 8, 4, 4, 6, 7, 4, 4, 0, 7, 3, 7, 0, 9, 5, 5>>),
     Txt(<<0, 1, 8, 4, 4, 6, 7, 4, 4, 0, 7, 3, 7, 0, 9, 5, 5>>),
     Txt(<<1, 8, 4, 4, 6, 7, 4, 4, 0, 7, 3, 7, 0, 9, 5, 6>>),
     Txt(<<1, 8, 4, 4, 6, 7, 4, 4, 0, 7, 3, 7, 0, 9, 5, 5, 1, 6, 1, 5>>),
     Txt(<<1, 8, 4, 4, 6, 7, 4, 4, 0, 7, 3, 7, 0, 9, 5, 5, 1, 6, 1, 6>>),
     <<"1", "U+0663">>}

\* What follows the integer part in the long texts.
FractionalParts ==
    {<< >>, <<".">>, <<".", "a">>, <<".", "U+0663">>}
        \cup {<<".">> \o Txt(f) :
                f \in {<<0>>, <<1>>, <<1, 2>>, <<1, 2, 3>>, <<0, 0, 0, 5>>,
                       <<1, 0, 0, 0>>, <<5, 6, 7, 8>>, <<1, 6, 1, 5>>,
                       <<1, 6, 1, 6>>, <<9, 9, 9, 9>>, <<1, 2, 3, 4, 5>>}}

Texts ==
    TextsUpTo(ShortAlphabet, MaxTextLen)
        \cup {i \o f : i \in IntegerParts, f \in FractionalParts}

InitText ==
    /\ AccountIdle
    /\ ArithIdle
    /\ RegistryIdle
    /\ text \in Texts
    /\ parsed = [tag |-> "none"]
    /\ shown = None

\* Amount::try_from(text)
TryFrom ==
    /\ parsed.tag = "none"
    /\ parsed' = try_from(text)
    /\ UNCHANGED <<text, shown, accountVars, arithVars, registryVars>>

\* amount.to_string()
Display ==
    /\ parsed.tag = "Ok"
    /\ shown = None
    /\ shown' = fmt(parsed.value)
    /\ UNCHANGED <<text, parsed, accountVars, arithVars, registryVars>>

NextText == TryFrom \/ Display

SpecText == InitText /\ [][NextText]_vars

---------------------------------------------------------------------------
(* The registry on its own: transactions handed to process_transaction in  *)
(* any number and order, then write.                                       *)

RegistryClientIds == {7, 8}

RegistryTxIds == {1, 2}

RegistryAmounts == {U64(Scale), U64_MAX}

\* The transactions a record can hold.
Transactions ==
    {[client_id |-> c, data |-> d] :
        c \in RegistryClientIds,
        d \in {[type |-> ty, transaction_id |-> tx, amount |-> a] :
                    ty \in {"Deposit", "Withdrawal"},
                    tx \in RegistryTxIds, a \in RegistryAmounts}
              \cup {[type |-> ty, transaction_id |-> tx] :
                    ty \in {"Dispute", "Resolve", "Chargeback"},
                    tx \in RegistryTxIds}}

\* The orders in which a HashMap with the keys S can be iterated.
IterationOrders(S) ==
    {f \in [1..Cardinality(S) -> S] :
        \A i, j \in 1..Cardinality(S) : f[i] = f[j] => i = j}

InitClients ==
    /\ AccountIdle
    /\ ArithIdle
    /\ TextIdle
    /\ clients = Clients_new
    /\ txn = [data |-> [type |-> "None"]]
    /\ outcome = "Ok"
    /\ processed = 0
    /\ seen = {}
    /\ deposited = {}
    /\ output = [tag |-> "none"]
    /\ input = << >>

\* A caller hands one more transaction to process_transaction.
Process ==
    /\ output.tag = "none"
    /\ outcome # "Panic"
    /\ processed < MaxRecords
    /\ \E t \in Transactions :
        LET r == process_transaction(clients, t) IN
        /\ clients' = r.clients
        /\ outcome' = r.result
        /\ txn' = t
        /\ seen' = IF t.data.type \in {"Deposit", "Withdrawal"}
                   THEN seen \cup {<<t.client_id, t.data.type,
                                     t.data.transaction_id>>}
                   ELSE seen
        /\ deposited' = IF t.data.type = "Deposit" /\ r.result = "Ok"
                        THEN deposited \cup {<<t.client_id,
                                                t.data.transaction_id>>}
                        ELSE deposited
    /\ processed' = processed + 1
    /\ UNCHANGED <<output, input, accountVars, arithVars, textVars>>

\* The caller asks for the snapshot: clients.write(output).
Write ==
    /\ output.tag = "none"
    /\ outcome # "Panic"
    /\ \E iter \in IterationOrders(DOMAIN clients) :
        output' = write(clients, iter)
    /\ UNCHANGED <<clients, txn, outcome, processed, seen, deposited, input,
                   accountVars, arithVars, textVars>>

NextClients == Process \/ Write

SpecClients == InitClients /\ [][NextClients]_vars

---------------------------------------------------------------------------
(* summarize_transactions: the records of one input are processed from     *)
(* first to last, then the snapshot is written.                            *)

\* An input holds at most MaxInputLen records in this specification.
MaxInputLen == 3

\* The records an input is made of: for each client a deposit and a
\* withdrawal of 1.0000 and a dispute, resolve and chargeback, all under
\* transaction id 1.
InputRecords ==
    {t \in Transactions :
        /\ t.data.transaction_id = 1
        /\ t.data.type \in {"Deposit", "Withdrawal"} =>
                t.data.amount = U64(Scale)}

Inputs == UNION {[1..n -> InputRecords] : n \in 0..MaxInputLen}

InitSummarize ==
    /\ AccountIdle
    /\ ArithIdle
    /\ TextIdle
    /\ clients = Clients_new
    /\ txn = [data |-> [type |-> "None"]]
    /\ outcome = "Ok"
    /\ processed = 0
    /\ seen = {}
    /\ deposited = {}
    /\ output = [tag |-> "none"]
    /\ input \in Inputs

\* The loop ended at the first record that returned an error.
WriteSnapshot_on_error ==
    /\ output.tag = "none"
    /\ outcome # "Panic"
    /\ processed = Len(input) \/ outcome \in ClientError
    /\ \E iter \in IterationOrders(DOMAIN clients) :
        output' = write(clients, iter)
    /\ UNCHANGED <<clients, txn, outcome, processed, seen, deposited, input,
                   accountVars, arithVars, textVars>>

\* One turn of the loop: the next record of the input is handed to
\* process_transaction; an error it returns is dropped.
NextRecord ==
    /\ output.tag = "none"
    /\ outcome # "Panic"
    /\ processed < Len(input)
    /\ LET t == input[processed + 1]
           r == process_transaction(clients, t)
       IN /\ clients' = r.clients
          /\ outcome' = r.result
          /\ txn' = t
          /\ seen' = IF t.data.type \in {"Deposit", "Withdrawal"}
                     THEN seen \cup {<<t.client_id, t.data.type,
                                       t.data.transaction_id>>}
                     ELSE seen
          /\ deposited' = IF t.data.type = "Deposit" /\ r.result = "Ok"
                          THEN deposited \cup {<<t.client_id,
                                                  t.data.transaction_id>>}
                          ELSE deposited
    /\ processed' = processed + 1
    /\ UNCHANGED <<output, input, accountVars, arithVars, textVars>>

\* The input is at its end: clients.write(output).
WriteSnapshot ==
    /\ output.tag = "none"
    /\ outcome # "Panic"
    /\ processed = Len(input)
    /\ \E iter \in IterationOrders(DOMAIN clients) :
        output' = write(clients, iter)
    /\ UNCHANGED <<clients, txn, outcome, processed, seen, deposited, input,
                   accountVars, arithVars, textVars>>

NextSummarize == NextRecord \/ WriteSnapshot

SpecSummarize == InitSummarize /\ [][NextSummarize]_vars

---------------------------------------------------------------------------
(* The registry fed with records that use one another's transaction ids:   *)
(* client 7 only deposits 1.0000, client 8 sends every kind of record and  *)
(* withdraws 1.0000.  With fewer records to choose from, longer runs are   *)
(* explored than in SpecClients.                                           *)

\* A run holds at most MaxReuseRecords records in this specification.
MaxReuseRecords == 5

ReuseRecords ==
    {t \in Transactions :
        /\ t.client_id = 7 =>
                (t.data.type = "Deposit" /\ t.data.amount = U64(Scale))
        /\ t.data.type = "Withdrawal" => t.data.amount = U64(Scale)}

InitReuse ==
    /\ AccountIdle
    /\ ArithIdle
    /\ TextIdle
    /\ clients = Clients_new
    /\ txn = [data |-> [type |-> "None"]]
    /\ outcome = "Ok"
    /\ processed = 0
    /\ seen = {}
    /\ deposited = {}
    /\ output = [tag |-> "none"]
    /\ input = << >>

\* A caller hands one more of these records to process_transaction.
ProcessReuse ==
    /\ outcome # "Panic"
    /\ processed < MaxReuseRecords
    /\ \E t \in ReuseRecords :
        LET r == process_transaction(clients, t) IN
        /\ clients' = r.clients
        /\ outcome' = r.result
        /\ txn' = t
        /\ seen' = IF t.data.type \in {"Deposit", "Withdrawal"}
                   THEN seen \cup {<<t.client_id, t.data.type,
                                     t.data.transaction_id>>}
                   ELSE seen
        /\ deposited' = IF t.data.type = "Deposit" /\ r.result = "Ok"
                        THEN deposited \cup {<<t.client_id,
                                                t.data.transaction_id>>}
                        ELSE deposited
    /\ processed' = processed + 1
    /\ UNCHANGED <<output, input, accountVars, arithVars, textVars>>

NextReuse == ProcessReuse

SpecReuse == InitReuse /\ [][NextReuse]_vars

---------------------------------------------------------------------------
(* Shape of the state. *)

IsU64(a) == DOMAIN a = Digits /\ (\A i \in Digits : a[i] \in 0..(Scale - 1))
                /\ Leq(a, U64_MAX)

TypeOK ==
    /\ IsU64(client.available)
    /\ IsU64(client.total)
    /\ client.locked \in BOOLEAN
    /\ DOMAIN client.deposits \subseteq TxIds
    /\ \A k \in DOMAIN client.deposits :
        IsU64(client.deposits[k].amount) /\ client.deposits[k].disputed \in BOOLEAN
    /\ result \in ClientError \cup {"Ok", "Panic"}

---------------------------------------------------------------------------
(* Properties of the account. *)

\* The ids of the stored deposit records.
Stored(self) == DOMAIN self.deposits

\* total + amount fits in a u64.
Fits(a, b) == Leq(Plus(a, b), U64_MAX)

\* C1: in every reachable state of an account, total = available + held,
\* where held is the sum of the amounts of the deposit records that are
\* marked disputed.
C1_TotalIsAvailablePlusHeld ==
    /\ actual_held(client) # None
    /\ client.total = Plus(client.available, actual_held(client))

\* C1 witness: an account with funds available and funds held.
C1_Witness ==
    /\ client.available # U64(0)
    /\ actual_held(client) # U64(0)
    /\ \E k \in Stored(client) : ~client.deposits[k].disputed

\* C2: in every reachable state available <= total <= u64::MAX, held() does
\* not fail, and no unwrap of a deposit, withdraw, resolve or chargeback has
\* panicked.
C2_UnwrapsNeverFail ==
    /\ Leq(client.available, client.total)
    /\ Leq(client.total, U64_MAX)
    /\ held(client) # None
    /\ result # "Panic"

\* C2 witness: a resolve has added a held amount back to available, with
\* the total at u64::MAX.
C2_Witness ==
    /\ call.kind = "resolve"
    /\ result = "Ok"
    /\ client.total = U64_MAX
    /\ client.available = U64_MAX

\* C3: a call that returns an error leaves available, total, locked and the
\* deposit records as they were before the call.
C3_FailureChangesNothing ==
    [][result' \in ClientError => client' = client]_vars

\* C3 witness: a dispute has failed for lack of funds on an account that
\* holds a balance and a disputed record.
C3_Witness ==
    /\ call.kind = "dispute"
    /\ result = "InsufficientFunds"
    /\ client.total # U64(0)
    /\ \E k \in Stored(client) : client.deposits[k].disputed

\* C4: once locked, the account stays locked, every call returns Locked and
\* the account does not change.
C4_LockedIsAbsorbing ==
    [][client.locked => (result' = "Locked" /\ client' = client)]_vars

\* C4 witness: a resolve of a stored, disputed record was refused on a
\* locked account.
C4_Witness ==
    /\ client.locked
    /\ result = "Locked"
    /\ call.kind = "resolve"
    /\ call.tx \in Stored(client)
    /\ client.deposits[call.tx].disputed

\* C5: a successful deposit(tx, amount) adds amount to available and to
\* total, leaves held and locked unchanged, and adds one record under tx
\* with that amount and disputed = false; the other records are unchanged.
C5_DepositEffect ==
    [][(call'.kind = "deposit" /\ result' = "Ok") =>
        /\ ~client.locked
        /\ client'.available = Plus(client.available, call'.amount)
        /\ client'.total = Plus(client.total, call'.amount)
        /\ held(client') = held(client)
        /\ actual_held(client') = actual_held(client)
        /\ client'.locked = client.locked
        /\ call'.tx \notin Stored(client)
        /\ Stored(client') = Stored(client) \cup {call'.tx}
        /\ client'.deposits[call'.tx] =
                [amount |-> call'.amount, disputed |-> FALSE]
        /\ \A k \in Stored(client) : client'.deposits[k] = client.deposits[k]
      ]_vars

\* C5 witness: a deposit of a non-zero amount has succeeded on an account
\* that already had a disputed record.
C5_Witness ==
    /\ call.kind = "deposit"
    /\ result = "Ok"
    /\ call.amount # U64(0)
    /\ \E k \in Stored(client) : client.deposits[k].disputed

\* C6 as stated: a deposit on an unlocked account under an id that is
\* already stored fails with DuplicateTransactionId, whatever the amount.
C6_DuplicateForEveryAmount ==
    [][(call'.kind = "deposit" /\ ~client.locked
            /\ call'.tx \in Stored(client)) =>
        result' = "DuplicateTransactionId"
      ]_vars

\* C6 amended: a deposit on an unlocked account under an id that is already
\* stored fails with DuplicateTransactionId when total + amount fits, and
\* with Overflow when it does not; either way the account is unchanged.
C6_DuplicateUnlessOverflow ==
    [][(call'.kind = "deposit" /\ ~client.locked
            /\ call'.tx \in Stored(client)) =>
        /\ result' = IF Fits(client.total, call'.amount)
                     THEN "DuplicateTransactionId" ELSE "Overflow"
        /\ client' = client
      ]_vars

\* C6 witness: a deposit was refused as a duplicate although it carried
\* another amount than the stored record.
C6_Witness ==
    /\ call.kind = "deposit"
    /\ result = "DuplicateTransactionId"
    /\ client.deposits[call.tx].amount # call.amount

\* C7: a deposit on an unlocked account fails with Overflow whenever
\* total + amount exceeds u64::MAX, also when available + amount would fit.
C7_OverflowOnTotal ==
    [][(call'.kind = "deposit" /\ ~client.locked
            /\ ~Fits(client.total, call'.amount)) =>
        (result' = "Overflow" /\ client' = client)
      ]_vars

\* C7 witness: a deposit under a fresh id failed with Overflow although
\* available + amount fits, part of the total being held.
C7_Witness ==
    /\ call.kind = "deposit"
    /\ result = "Overflow"
    /\ call.tx \notin Stored(client)
    /\ Fits(client.available, call.amount)
    /\ Less(client.available, client.total)

\* C8: a withdraw on an unlocked account succeeds exactly when
\* amount <= available; it then takes amount off available and off total
\* and leaves the records and the lock alone; otherwise it fails with
\* InsufficientFunds.
C8_WithdrawEffect ==
    [][(call'.kind = "withdraw" /\ ~client.locked) =>
        IF Leq(call'.amount, client.available)
        THEN /\ result' = "Ok"
             /\ client'.available = Minus(client.available, call'.amount)
             /\ client'.total = Minus(client.total, call'.amount)
             /\ client'.deposits = client.deposits
             /\ client'.locked = client.locked
        ELSE result' = "InsufficientFunds"
      ]_vars

\* C8 witness: a withdrawal of no more than the total was refused because
\* part of the total is held.
C8_Witness ==
    /\ call.kind = "withdraw"
    /\ result = "InsufficientFunds"
    /\ ~client.locked
    /\ Leq(call.amount, client.total)

\* C9: a successful dispute(tx) takes the recorded amount off available,
\* adds it to held, leaves total and locked unchanged, marks record tx
\* disputed and changes no other record.
C9_DisputeEffect ==
    [][(call'.kind = "dispute" /\ result' = "Ok") =>
        /\ ~client.locked
        /\ call'.tx \in Stored(client)
        /\ ~client.deposits[call'.tx].disputed
        /\ Leq(client.deposits[call'.tx].amount, client.available)
        /\ client'.available =
                Minus(client.available, client.deposits[call'.tx].amount)
        /\ held(client') =
                Plus(held(client), client.deposits[call'.tx].amount)
        /\ actual_held(client') =
                Plus(actual_held(client), client.deposits[call'.tx].amount)
        /\ client'.total = client.total
        /\ client'.locked = client.locked
        /\ Stored(client') = Stored(client)
        /\ client'.deposits[call'.tx] =
                [amount |-> client.deposits[call'.tx].amount,
                 disputed |-> TRUE]
        /\ \A k \in Stored(client) \ {call'.tx} :
                client'.deposits[k] = client.deposits[k]
      ]_vars

\* C9 witness: a dispute of a non-zero deposit has succeeded on an account
\* with another record.
C9_Witness ==
    /\ call.kind = "dispute"
    /\ result = "Ok"
    /\ client.deposits[call.tx].amount # U64(0)
    /\ Stored(client) # {call.tx}

\* C10: a dispute on an unlocked account fails with UnknownTransactionId if
\* tx is not stored, else with AlreadyDisputed if the record is marked, else
\* with InsufficientFunds if its amount exceeds available, and succeeds
\* otherwise.
C10_DisputeOutcome ==
    [][(call'.kind = "dispute" /\ ~client.locked) =>
        result' =
            IF call'.tx \notin Stored(client) THEN "UnknownTransactionId"
            ELSE IF client.deposits[call'.tx].disputed THEN "AlreadyDisputed"
            ELSE IF Less(client.available, client.deposits[call'.tx].amount)
                THEN "InsufficientFunds"
            ELSE "Ok"
      ]_vars

\* C10 witness: a dispute failed with AlreadyDisputed while the record's
\* amount exceeded the available balance.
C10_Witness ==
    /\ call.kind = "dispute"
    /\ result = "AlreadyDisputed"
    /\ Less(client.available, client.deposits[call.tx].amount)

\* C11: a successful resolve(tx) adds the recorded amount to available,
\* takes it off held, leaves total and locked unchanged, clears the flag of
\* record tx and keeps the record; no other record changes.
C11_ResolveEffect ==
    [][(call'.kind = "resolve" /\ result' = "Ok") =>
        /\ ~client.locked
        /\ call'.tx \in Stored(client)
        /\ client.deposits[call'.tx].disputed
        /\ client'.available =
                Plus(client.available, client.deposits[call'.tx].amount)
        /\ held(client) =
                Plus(held(client'), client.deposits[call'.tx].amount)
        /\ actual_held(client) =
                Plus(actual_held(client'), client.deposits[call'.tx].amount)
        /\ client'.total = client.total
        /\ client'.locked = client.locked
        /\ Stored(client') = Stored(client)
        /\ client'.deposits[call'.tx] =
                [amount |-> client.deposits[call'.tx].amount,
                 disputed |-> FALSE]
        /\ \A k \in Stored(client) \ {call'.tx} :
                client'.deposits[k] = client.deposits[k]
      ]_vars

\* C11 witness: a resolve of a non-zero deposit has succeeded while another
\* record is still disputed.
C11_Witness ==
    /\ call.kind = "resolve"
    /\ result = "Ok"
    /\ client.deposits[call.tx].amount # U64(0)
    /\ \E k \in Stored(client) : client.deposits[k].disputed

\* C12: a successful chargeback(tx) takes the recorded amount off total and
\* off held, leaves available unchanged, removes record tx and locks the
\* account; no other record changes.
C12_ChargebackEffect ==
    [][(call'.kind = "chargeback" /\ result' = "Ok") =>
        /\ ~client.locked
        /\ call'.tx \in Stored(client)
        /\ client.deposits[call'.tx].disputed
        /\ client.total =
                Plus(client'.total, client.deposits[call'.tx].amount)
        /\ held(client) =
                Plus(held(client'), client.deposits[call'.tx].amount)
        /\ actual_held(client) =
                Plus(actual_held(client'), client.deposits[call'.tx].amount)
        /\ client'.available = client.available
        /\ client'.locked
        /\ Stored(client') = Stored(client) \ {call'.tx}
        /\ \A k \in Stored(client') : client'.deposits[k] = client.deposits[k]
      ]_vars

\* C12 witness: a chargeback of a non-zero deposit has succeeded on an
\* account that keeps funds available and another record.
C12_Witness ==
    /\ call.kind = "chargeback"
    /\ result = "Ok"
    /\ client.locked
    /\ call.tx \notin Stored(client)
    /\ Stored(client) # {}
    /\ client.available # U64(0)
    /\ Less(client.total, U64_MAX)

\* C13: on an unlocked account resolve(tx) and chargeback(tx) fail with
\* UnknownTransactionId if tx is not stored, with NotDisputed if it is stored
\* and not marked disputed, and succeed otherwise; a record becomes marked
\* only by a successful dispute of its id.
C13_DisputeComesFirst ==
    [][/\ (call'.kind \in {"resolve", "chargeback"} /\ ~client.locked) =>
            result' =
                IF call'.tx \notin Stored(client) THEN "UnknownTransactionId"
                ELSE IF ~client.deposits[call'.tx].disputed THEN "NotDisputed"
                ELSE "Ok"
       /\ \A k \in Stored(client') :
            (/\ client'.deposits[k].disputed
             /\ ~(k \in Stored(client) /\ client.deposits[k].disputed)) =>
                (call' = [kind |-> "dispute", tx |-> k] /\ result' = "Ok")
      ]_vars

\* C13 witness: a chargeback of a stored deposit was refused as NotDisputed
\* while another deposit of the account is under dispute.
C13_Witness ==
    /\ call.kind = "chargeback"
    /\ result = "NotDisputed"
    /\ call.tx \in Stored(client)
    /\ \E k \in Stored(client) : client.deposits[k].disputed

\* C25: the amount of a stored record never changes; a record is created
\* only by a successful deposit of its id; its disputed flag changes only
\* by a successful dispute or resolve of its id, so never by a deposit or
\* a withdraw; and it leaves the deposit set only by a successful chargeback
\* of its id.
C25_RecordLifecycle ==
    [][/\ \A k \in Stored(client) \cap Stored(client') :
            /\ client'.deposits[k].amount = client.deposits[k].amount
            /\ call'.kind \in {"deposit", "withdraw"} =>
                    client'.deposits[k].disputed = client.deposits[k].disputed
            /\ client'.deposits[k].disputed # client.deposits[k].disputed =>
                    /\ call' \in {[kind |-> "dispute", tx |-> k],
                                  [kind |-> "resolve", tx |-> k]}
                    /\ result' = "Ok"
       /\ \A k \in Stored(client) \ Stored(client') :
            /\ call' = [kind |-> "chargeback", tx |-> k]
            /\ result' = "Ok"
       /\ \A k \in Stored(client') \ Stored(client) :
            /\ call'.kind = "deposit"
            /\ call'.tx = k
            /\ result' = "Ok"
            /\ client'.deposits[k] =
                    [amount |-> call'.amount, disputed |-> FALSE]
    ]_vars

\* C25 witness: a withdrawal has succeeded on an account that keeps one
\* record under dispute and one that is not.
C25_Witness ==
    /\ call.kind = "withdraw"
    /\ result = "Ok"
    /\ call.amount # U64(0)
    /\ \E k \in Stored(client) : client.deposits[k].disputed
    /\ \E k \in Stored(client) : ~client.deposits[k].disputed

\* C26: on an unlocked account a successful dispute(tx) followed at once
\* by resolve(tx) succeeds and gives back the account as it was before the
\* dispute, so that tx can be disputed again with the same effect; this
\* holds in every state of the account, hence for any number of cycles.
C26_DisputeResolveCycle ==
    [][/\ \A tx \in TxIds :
            LET d == dispute(client, tx) IN
            d.result = "Ok" =>
                /\ ~client.locked
                /\ resolve(d.self, tx) = Ret(client, "Ok")
                /\ dispute(resolve(d.self, tx).self, tx) = d
       /\ (/\ call.kind = "dispute"
           /\ result = "Ok"
           /\ call'.kind = "resolve"
           /\ call'.tx = call.tx) =>
            /\ result' = "Ok"
            /\ dispute(client', call'.tx) = Ret(client, "Ok")
    ]_vars

\* C26 witness: a resolve has succeeded right after the dispute of a
\* non-zero deposit, next to another record, and the deposit can be
\* disputed again.
C26_Witness ==
    /\ call.kind = "resolve"
    /\ result = "Ok"
    /\ client.deposits[call.tx].amount # U64(0)
    /\ Stored(client) # {call.tx}
    /\ dispute(client, call.tx).result = "Ok"

\* C27: an account is locked exactly when a chargeback has succeeded on
\* it; at most one chargeback succeeds per account; and once it is locked
\* its available and total keep the values they had right after that
\* chargeback.
C27_LockedIffChargedBack ==
    [][/\ client.locked <=> charged >= 1
       /\ client'.locked <=> charged' >= 1
       /\ charged' <= 1
       /\ (call'.kind = "chargeback" /\ result' = "Ok") =>
            (~client.locked /\ client'.locked)
       /\ client'.locked # client.locked =>
            (call'.kind = "chargeback" /\ result' = "Ok")
       /\ client.locked =>
            /\ client'.available = client.available
            /\ client'.total = client.total
    ]_vars

\* C27 witness: after the one successful chargeback, a deposit was refused
\* on the locked account, which still has funds.
C27_Witness ==
    /\ call.kind = "deposit"
    /\ result = "Locked"
    /\ client.locked
    /\ charged = 1
    /\ client.available # U64(0)

---------------------------------------------------------------------------
(* Properties of the registry. *)

\* The account of a client before a record is processed: the one kept in
\* the registry, or a new one.
AccountOf(cs, id) == IF id \in DOMAIN cs THEN cs[id] ELSE Client_default

\* A record was processed in this step.
Processed == processed' = processed + 1

\* C14: process_transaction(t) applies the one account operation of t's
\* kind to the account of t's client and returns its result; the accounts
\* of all other clients are unchanged and no account is removed.
C14_ProcessTransactionEffect ==
    [][Processed =>
        LET id == txn'.client_id
            before == AccountOf(clients, id)
            data == txn'.data
        IN /\ data.type = "Deposit" =>
                /\ clients'[id] =
                     deposit(before, data.transaction_id, data.amount).self
                /\ outcome' =
                     deposit(before, data.transaction_id, data.amount).result
           /\ data.type = "Withdrawal" =>
                /\ clients'[id] = withdraw(before, data.amount).self
                /\ outcome' = withdraw(before, data.amount).result
           /\ data.type = "Dispute" =>
                /\ clients'[id] = dispute(before, data.transaction_id).self
                /\ outcome' = dispute(before, data.transaction_id).result
           /\ data.type = "Resolve" =>
                /\ clients'[id] = resolve(before, data.transaction_id).self
                /\ outcome' = resolve(before, data.transaction_id).result
           /\ data.type = "Chargeback" =>
                /\ clients'[id] = chargeback(before, data.transaction_id).self
                /\ outcome' = chargeback(before, data.transaction_id).result
           /\ DOMAIN clients' = DOMAIN clients \cup {id}
           /\ \A other \in DOMAIN clients \ {id} :
                clients'[other] = clients[other]
    ]_vars

\* C14 witness: a dispute of client 7 succeeded while client 8 has an
\* account holding funds.
C14_Witness ==
    /\ txn.data.type = "Dispute"
    /\ txn.client_id = 7
    /\ outcome = "Ok"
    /\ 8 \in DOMAIN clients
    /\ clients[8].total # U64(0)
    /\ clients[7].total # clients[7].available

\* C15: the snapshot has one row per client known to the registry, in
\* strictly ascending order of client id, and each row carries the text of
\* that account's available, held = total - available, total, and its
\* locked flag.
C15_SnapshotSortedAndComplete ==
    /\ output.tag # "Panic"
    /\ output.tag = "Ok" =>
        /\ Len(output.rows) = Cardinality(DOMAIN clients)
        /\ {output.rows[i].client : i \in 1..Len(output.rows)} = DOMAIN clients
        /\ \A i, j \in 1..Len(output.rows) :
                i < j => output.rows[i].client < output.rows[j].client
        /\ \A i \in 1..Len(output.rows) :
            LET row == output.rows[i]
                c == clients[row.client]
            IN /\ row.available = fmt(c.available)
               /\ row.held = fmt(Minus(c.total, c.available))
               /\ row.total = fmt(c.total)
               /\ row.locked = c.locked

\* C15 witness: client 8 was seen first and client 7 second, and the
\* snapshot has the two rows.
C15_Witness ==
    /\ output.tag = "Ok"
    /\ Len(output.rows) = 2
    /\ processed = 2
    /\ txn.client_id = 7
    /\ output.rows[1].client = 7
    /\ output.rows[2].client = 8

\* The id of the deposit record being processed was used before by a
\* withdrawal record of the same client, and no deposit of that client
\* under it has succeeded.
ReusesWithdrawalId ==
    /\ Processed
    /\ txn'.data.type = "Deposit"
    /\ <<txn'.client_id, "Withdrawal", txn'.data.transaction_id>> \in seen
    /\ <<txn'.client_id, txn'.data.transaction_id>> \notin deposited

\* C20 as stated: a deposit whose id was used before only by a withdrawal
\* of the same client is rejected with DuplicateTransactionId.
C20_WithdrawalIdIsDuplicate ==
    [][ReusesWithdrawalId => outcome' = "DuplicateTransactionId"]_vars

\* C20: a deposit whose id was used before only by a withdrawal of the
\* same client is never rejected as a duplicate: it fails with Locked on a
\* locked account, with Overflow when total + amount does not fit, leaving
\* the account unchanged, and otherwise succeeds and is stored under that
\* id as a new record, not disputed.
C20_WithdrawalIdIsFree ==
    [][ReusesWithdrawalId =>
        LET c == txn'.client_id
            tx == txn'.data.transaction_id
            before == AccountOf(clients, c)
        IN /\ tx \notin Stored(before)
           /\ outcome' = IF before.locked THEN "Locked"
                         ELSE IF ~Fits(before.total, txn'.data.amount)
                         THEN "Overflow"
                         ELSE "Ok"
           /\ outcome' = "Ok" =>
                /\ tx \in Stored(clients'[c])
                /\ clients'[c].deposits[tx] =
                        [amount |-> txn'.data.amount, disputed |-> FALSE]
                /\ clients'[c].total = Plus(before.total, txn'.data.amount)
           /\ outcome' # "Ok" => clients'[c] = before
    ]_vars

\* C20 witness: client 8 deposited 1.0000 under id 1, withdrew it under
\* id 2, and then made a deposit of 1.0000 under id 2, which succeeded and
\* is stored.
C20_Witness ==
    /\ processed = 3
    /\ txn.data.type = "Deposit"
    /\ txn.data.transaction_id = 2
    /\ outcome = "Ok"
    /\ seen = {<<txn.client_id, "Deposit", 1>>,
               <<txn.client_id, "Withdrawal", 2>>,
               <<txn.client_id, "Deposit", 2>>}
    /\ Stored(clients[txn.client_id]) = {1, 2}
    /\ \A k \in {1, 2} :
            clients[txn.client_id].deposits[k] =
                [amount |-> U64(Scale), disputed |-> FALSE]
    /\ clients[txn.client_id].total = U64(Scale)

\* The record being processed is a dispute, resolve or chargeback whose id
\* was used before by a withdrawal record of the same client, and by no
\* deposit record of it.
NamesWithdrawalId ==
    /\ Processed
    /\ txn'.data.type \in {"Dispute", "Resolve", "Chargeback"}
    /\ <<txn'.client_id, "Withdrawal", txn'.data.transaction_id>> \in seen
    /\ <<txn'.client_id, "Deposit", txn'.data.transaction_id>> \notin seen

\* C21: a withdrawal stores no record; a dispute, resolve or chargeback
\* naming an id used only by withdrawals of the client fails with
\* UnknownTransactionId on an unlocked account (Locked on a locked one) and
\* leaves the whole registry unchanged.
C21_WithdrawalsAreNotRecorded ==
    [][/\ (Processed /\ txn'.data.type = "Withdrawal") =>
            clients'[txn'.client_id].deposits =
                AccountOf(clients, txn'.client_id).deposits
       /\ NamesWithdrawalId =>
            /\ outcome' = IF clients[txn'.client_id].locked
                          THEN "Locked" ELSE "UnknownTransactionId"
            /\ clients' = clients
    ]_vars

\* C21 witness: a deposit under id 1 was withdrawn in full by a withdrawal
\* under id 2, and a dispute of id 2 was refused as unknown.
C21_Witness ==
    /\ txn.data.type = "Dispute"
    /\ txn.data.transaction_id = 2
    /\ outcome = "UnknownTransactionId"
    /\ seen = {<<txn.client_id, "Deposit", 1>>,
               <<txn.client_id, "Withdrawal", 2>>}
    /\ Stored(clients[txn.client_id]) = {1}
    /\ clients[txn.client_id].total = U64(0)

\* The text of the amount zero.
ZeroText == <<"0", ".", "0", "0", "0", "0">>

\* C22: after a record is processed, with success or with an error, its
\* client has an account; a client first seen in a failing record gets the
\* default account (available = total = held = 0, not locked); no account
\* is ever removed; and the snapshot has a row for every account, all zero
\* and unlocked for a default one.
C22_AccountsAreCreatedAndKept ==
    [][/\ DOMAIN clients \subseteq DOMAIN clients'
       /\ Processed =>
            /\ txn'.client_id \in DOMAIN clients'
            /\ (txn'.client_id \notin DOMAIN clients
                    /\ outcome' \in ClientError) =>
                /\ clients'[txn'.client_id] = Client_default
                /\ available(clients'[txn'.client_id]) = U64(0)
                /\ total(clients'[txn'.client_id]) = U64(0)
                /\ held(clients'[txn'.client_id]) = U64(0)
                /\ ~locked(clients'[txn'.client_id])
       /\ output' # output =>
            /\ output'.tag = "Ok"
            /\ \A id \in DOMAIN clients :
                \E i \in 1..Len(output'.rows) :
                    /\ output'.rows[i].client = id
                    /\ clients[id] = Client_default =>
                        output'.rows[i] =
                            [client |-> id, available |-> ZeroText,
                             held |-> ZeroText, total |-> ZeroText,
                             locked |-> FALSE]
    ]_vars

\* C22 witness: client 8 was first seen in a dispute of an unknown id, and
\* the snapshot has its all-zero row after the row of client 7, which holds
\* funds.
C22_Witness ==
    /\ processed = 2
    /\ txn.data.type = "Dispute"
    /\ txn.client_id = 8
    /\ outcome = "UnknownTransactionId"
    /\ clients[8] = Client_default
    /\ output.tag = "Ok"
    /\ Len(output.rows) = 2
    /\ output.rows[1].total # ZeroText
    /\ output.rows[2] = [client |-> 8, available |-> ZeroText,
                         held |-> ZeroText, total |-> ZeroText,
                         locked |-> FALSE]

\* The clients other than B whose deposit under the id of the record being
\* processed for B has succeeded, no deposit of B under it having succeeded.
OtherDepositors ==
    IF <<txn'.client_id, txn'.data.transaction_id>> \in deposited
    THEN {}
    ELSE {a \in RegistryClientIds \ {txn'.client_id} :
            <<a, txn'.data.transaction_id>> \in deposited}

\* C23 as stated: a deposit of client B under an id deposited before by
\* another client A succeeds, and a dispute, resolve or chargeback of B
\* naming an id deposited only by A fails with UnknownTransactionId and
\* leaves A's account unchanged.
C23_IdsScopedInEveryState ==
    [][(Processed /\ OtherDepositors # {}) =>
        /\ txn'.data.type = "Deposit" => outcome' = "Ok"
        /\ txn'.data.type \in {"Dispute", "Resolve", "Chargeback"} =>
                outcome' = "UnknownTransactionId"
        /\ \A a \in OtherDepositors : clients'[a] = clients[a]
    ]_vars

\* C23: transaction ids are scoped per account.  When B sends a record
\* under an id deposited only by another client A, A's account and records
\* are unchanged, and the outcome is that of B's own account: a deposit is
\* never a duplicate (Locked if B is locked, Overflow if B's total + amount
\* does not fit, else Ok and stored for B); a dispute, resolve or
\* chargeback fails with UnknownTransactionId (Locked if B is locked) and
\* leaves B's account unchanged too.
C23_IdsScopedPerAccount ==
    [][(Processed /\ OtherDepositors # {}) =>
        LET b == txn'.client_id
            before == AccountOf(clients, b)
        IN /\ txn'.data.type = "Deposit" =>
                /\ outcome' = IF before.locked THEN "Locked"
                              ELSE IF ~Fits(before.total, txn'.data.amount)
                              THEN "Overflow"
                              ELSE "Ok"
                /\ outcome' = "Ok" =>
                        clients'[b].deposits[txn'.data.transaction_id] =
                            [amount |-> txn'.data.amount, disputed |-> FALSE]
                /\ outcome' # "Ok" => clients'[b] = before
           /\ txn'.data.type \in {"Dispute", "Resolve", "Chargeback"} =>
                /\ outcome' = IF before.locked THEN "Locked"
                              ELSE "UnknownTransactionId"
                /\ clients'[b] = before
           /\ \A a \in OtherDepositors : clients'[a] = clients[a]
    ]_vars

\* C23 witness: client 8 was locked by the chargeback of its deposit under
\* id 1, client 7 deposited under id 2, and a dispute of client 8 naming
\* id 2 was refused as Locked, client 7 keeping its record.
C23_Witness ==
    /\ processed = 5
    /\ txn.data.type = "Dispute"
    /\ txn.client_id = 8
    /\ txn.data.transaction_id = 2
    /\ outcome = "Locked"
    /\ clients[8].locked
    /\ deposited = {<<8, 1>>, <<7, 2>>}
    /\ clients[7].deposits[2] = [amount |-> U64(Scale), disputed |-> FALSE]
    /\ clients[7].total = U64(Scale)

\* The registry after the records are handed to process_transaction one
\* after the other, whatever each call returns.
RECURSIVE AppliedInOrder(_, _)
AppliedInOrder(cs, records) ==
    IF records = << >> THEN cs
    ELSE AppliedInOrder(process_transaction(cs, Head(records)).clients,
                        Tail(records))

\* C24: summarize_transactions hands each record of the input to
\* process_transaction once, in input order; an error returned for a record
\* does not stop the loop; and the snapshot is written once, after the last
\* record, from the registry all the records were applied to.
C24_EveryRecordOnceInOrder ==
    [][/\ processed' # processed =>
            /\ processed' = processed + 1
            /\ processed' <= Len(input)
            /\ txn' = input[processed']
            /\ output.tag = "none"
       /\ clients' = AppliedInOrder(Clients_new, SubSeq(input, 1, processed'))
       /\ output' # output =>
            /\ output.tag = "none"
            /\ processed = Len(input)
            /\ \E iter \in IterationOrders(DOMAIN clients) :
                output' = write(AppliedInOrder(Clients_new, input), iter)
       /\ input' = input
    ]_vars

\* C24 witness: the first of three records failed, the third was applied
\* with success, and the snapshot was written after it.
C24_Witness ==
    /\ Len(input) = 3
    /\ processed = 3
    /\ process_transaction(Clients_new, input[1]).result \in ClientError
    /\ txn = input[3]
    /\ outcome = "Ok"
    /\ output.tag = "Ok"

---------------------------------------------------------------------------
(* Properties of Amount. *)

\* C16: checked_add returns the exact sum when it fits in a u64 and fails
\* otherwise; checked_sub returns the exact difference when rhs <= lhs and
\* fails otherwise; neither returns a wrapped value.
C16_ArithmeticNeverWraps ==
    /\ op = "add" =>
        /\ (out = None) <=> Less(Minus(U64_MAX, lhs), rhs)
        /\ out # None =>
            (Leq(out, U64_MAX) /\ Leq(rhs, out) /\ Minus(out, rhs) = lhs)
    /\ op = "sub" =>
        /\ (out = None) <=> Less(lhs, rhs)
        /\ out # None => (Leq(out, lhs) /\ Plus(out, rhs) = lhs)

\* C16 witness: an addition of two non-zero amounts has returned exactly
\* u64::MAX.
C16_Witness ==
    /\ op = "add"
    /\ out = U64_MAX
    /\ lhs # U64(0)
    /\ rhs # U64(0)

\* The characters before the first separator, and those after it.
IntegerOf(s) ==
    IF FirstDot(s) = 0 THEN s ELSE SubSeq(s, 1, FirstDot(s) - 1)

FractionOf(s) ==
    IF FirstDot(s) = 0 THEN << >> ELSE SubSeq(s, FirstDot(s) + 1, Len(s))

\* s without its leading zeroes, a last digit being kept.
RECURSIVE StripZeros(_)
StripZeros(s) ==
    IF Len(s) > 1 /\ s[1] = "0" THEN StripZeros(Tail(s)) ELSE s

\* f filled with zeroes on the right to four characters.
PadRight4(f) == f \o [i \in 1..(4 - Len(f)) |-> "0"]

\* The canonical text of a well-formed text.
Normalized(s) ==
    StripZeros(IntegerOf(s)) \o <<".">> \o PadRight4(FractionOf(s))

\* One or more ASCII digits, optionally followed by a separator and one to
\* four ASCII digits.
WellFormed(s) ==
    /\ Len(IntegerOf(s)) >= 1
    /\ \A i \in 1..Len(IntegerOf(s)) : IntegerOf(s)[i] \in AsciiDigits
    /\ FirstDot(s) # 0 =>
        /\ Len(FractionOf(s)) \in 1..4
        /\ \A i \in 1..Len(FractionOf(s)) : FractionOf(s)[i] \in AsciiDigits

\* C17: for every text that parses, the text of the parsed amount is the
\* input with the leading zeroes of its integer part dropped and its
\* fractional part filled to four digits; a text already in that form comes
\* back unchanged.
C17_RoundTrip ==
    (parsed.tag = "Ok" /\ shown # None) =>
        /\ shown = Normalized(text)
        /\ (/\ StripZeros(IntegerOf(text)) = IntegerOf(text)
            /\ Len(FractionOf(text)) = 4) => shown = text

\* C17 witness: 0001234.0005 was parsed and written back as 1234.0005.
C17_Witness ==
    /\ text = Txt(<<0, 0, 0, 1, 2, 3, 4>>) \o <<".">> \o Txt(<<0, 0, 0, 5>>)
    /\ shown = Txt(<<1, 2, 3, 4>>) \o <<".">> \o Txt(<<0, 0, 0, 5>>)

\* The decimal digits of u64::MAX.
U64_MAX_TEXT ==
    Txt(<<1, 8, 4, 4, 6, 7, 4, 4, 0, 7, 3, 7, 0, 9, 5, 5, 1, 6, 1, 5>>)

\* a <= b for two numbers written in decimal without leading zeroes.
DecimalLeq(a, b) ==
    \/ Len(a) < Len(b)
    \/ /\ Len(a) = Len(b)
       /\ \/ a = b
          \/ \E i \in 1..Len(a) :
                /\ DigitValue(a[i]) < DigitValue(b[i])
                /\ \A j \in 1..(i - 1) : a[j] = b[j]

\* I * 10000 + F of a well-formed text, written in decimal.
TenThousandths(s) == StripZeros(IntegerOf(s) \o PadRight4(FractionOf(s)))

\* C18: a well-formed text parses exactly when I * 10000 + F <= u64::MAX,
\* and fails with TooLarge otherwise.
C18_TooLargeExactly ==
    (parsed.tag # "none" /\ WellFormed(text)) =>
        parsed.tag = IF DecimalLeq(TenThousandths(text), U64_MAX_TEXT)
                     THEN "Ok" ELSE "TooLarge"

\* C18 witness: 1844674407370955.1616 was refused as TooLarge: its integer
\* part times 10000 fits, only adding the fractional part overflows.
C18_Witness ==
    /\ text = Txt(<<1, 8, 4, 4, 6, 7, 4, 4, 0, 7, 3, 7, 0, 9, 5, 5>>)
                \o <<".">> \o Txt(<<1, 6, 1, 6>>)
    /\ parsed.tag = "TooLarge"

\* C19: parsing never panics, it returns an amount, InvalidFormat or
\* TooLarge; and every text that is not well-formed yields InvalidFormat.
C19_ParseNeverPanics ==
    parsed.tag # "none" =>
        /\ parsed.tag \in {"Ok", "InvalidFormat", "TooLarge"}
        /\ ~WellFormed(text) => parsed.tag = "InvalidFormat"

=============================================================================
